---------------------------- MODULE Spec2Model ----------------------------
(***************************************************************************)
(* Verification & attack harness of secure-embedding-demo (src/scripts).   *)
(*                                                                         *)
(* Spec      : the scripts as sessions run one after another against the   *)
(*             shared encryption oracle (Vault) and vector store (Qdrant). *)
(*             Every HTTP call is one step and may fail; an uncaught       *)
(*             exception ends the session ("crashed").                     *)
(* SpecEval  : one comparison of prove-search-works.py (lines 166-189) on  *)
(*             result lists drawn from bounded sets.                       *)
(* SpecBatch : the query loop and the summary of prove-search-works.py     *)
(*             (lines 144-209) on a batch of result lists.                 *)
(* SpecClassify : the checks that classify an inversion, of                *)
(*             attack-stored-vectors.py and demo-real-vec2text.py, on      *)
(*             pairs of an original text and an inversion output.          *)
(* SpecScroll : attack-stored-vectors.py against collections of about      *)
(*             scroll_limit records.                                       *)
(***************************************************************************)
EXTENDS Integers, Sequences, FiniteSets, TLC

VARIABLES
  \* ---- sessions, oracle and store (Spec) ----
  runs,        \* number of sessions started so far
  script,      \* the script the current session runs
  pc,          \* position of the current session in its main()
  i,           \* loop index of the current for-loop (1-based)
  oracle,      \* the oracle's state: configured?, current key epoch
  store,       \* the store: collection name -> [exists, points]
  doc_id,      \* id of the document being ingested
  embedding,   \* embedding / query_emb / query_embedding / raw_emb
  encrypted,   \* encrypted / encrypted_query / enc_emb
  cfgCalls,    \* config/rotate calls issued in this session
  encCalls,    \* encrypt calls issued in this session
  qEmbeds,     \* model.encode calls issued for the current query
  searches,    \* the search requests issued in this session
  ignored,     \* the failed requests this session has swallowed
  extracted,   \* raw_points / secure_points: what get_all_points returned
  todo,        \* the points the for-loop has not reached yet
  verdicts,    \* the points for which a Status line was printed
  errors,      \* the "Error:" lines printed, by collection
  summary,     \* the summary table printed, by collection
  \* ---- comparative evaluation (SpecEval, SpecBatch) ----
  epc,         \* position in the body of the query loop
  q,           \* index of the current query (1-based)
  nq,          \* number of queries of the batch
  raw_ids, raw_scores, enc_ids, enc_scores,
  overlap, enc_ranks, rank_x, rank_corr, score_corr,
  raw_matched, enc_matched,
  all_overlaps, all_rank_correlations, all_score_correlations,
  avg_overlap, avg_rank_corr, avg_score_corr,
  \* ---- classification of an inversion (SpecClassify) ----
  original,    \* the original text: point['payload']['text'] / text
  recovered,   \* recovered[0] / raw_recovered[0] / enc_recovered[0]
  cpc,         \* which classification has run
  match,       \* the verdict of the check of a plain vector's inversion
  common,      \* the words found in both texts
  status       \* the verdict of the check of an encrypted vector's inversion

attackVars == <<extracted, todo, verdicts, errors, summary>>
sysVars == <<runs, script, pc, i, oracle, store, doc_id, embedding, encrypted,
             cfgCalls, encCalls, qEmbeds, searches, ignored, attackVars>>
evalVars == <<epc, q, nq, raw_ids, raw_scores, enc_ids, enc_scores,
              overlap, enc_ranks, rank_x, rank_corr, score_corr,
              raw_matched, enc_matched,
              all_overlaps, all_rank_correlations, all_score_correlations,
              avg_overlap, avg_rank_corr, avg_score_corr>>
textVars == <<original, recovered, cpc, match, common, status>>
\* what a step of a session leaves alone
pureVars == <<evalVars, textVars>>
vars == <<sysVars, evalVars, textVars>>

----------------------------------------------------------------------------
(* Bounds of the model *)

\* sessions run one after another
MaxRuns == 3
\* length of the prefix of each DOCUMENTS / TEXTS list that is ingested
NumDocs == 2
\* length of the prefix of QUERIES that prove-search-works runs
NumQueries == 2
\* SpecEval: document ids a result list is drawn from
EvalIds == 6
\* SpecBatch: document ids, score levels, and queries of the batch
BatchIds == 3
MaxScore == 2
BatchQueries == 2

----------------------------------------------------------------------------
(* Values *)

Scripts == {"ingest_demo", "ingest_gtr", "prove", "search_gtr", "vec2text",
            "attack"}

Collections == {"raw_documents", "secure_documents", "proof_raw", "proof_encrypted"}
PlainCollections == {"raw_documents", "proof_raw"}
EncryptedCollections == {"secure_documents", "proof_encrypted"}

NoText == [src |-> "none", n |-> 0]
NoVec == [kind |-> "none", text |-> NoText, key |-> 0]
NoId == [gen |-> "none", run |-> 0, n |-> 0]

\* DOCUMENTS[n] / QUERIES[n] / TEXTS[n] of a script, as an opaque text
Text(src, n) == [src |-> src, n |-> n]

\* str(uuid.uuid4()): a fresh id, distinct per session and per document
Uuid4(r, n) == [gen |-> "uuid4", run |-> r, n |-> n]
\* the literal ids of ingest-gtr.py's DOCUMENTS
GtrId(n) == [gen |-> "literal", run |-> 0, n |-> n]

\* model.encode(text): the embedding of a text, a plaintext vector
Encode(t) == [kind |-> "emb", text |-> t, key |-> 0]

\* POST /v1/vector/encrypt/vector: the ciphertext of vector v under the
\* oracle's current key; not the identity, and different under each key
Ciphertext(v, k) == [kind |-> "ct", text |-> v.text, key |-> k]

\* payload {'text': doc, ...} of ingest-demo-data / prove-search-works
TextPayload(t) == [has_text |-> TRUE, text |-> t]
\* payload {'document_id', 'title', 'source', 'content_preview'} of ingest-gtr
GtrPayload(t) == [has_text |-> FALSE, text |-> t]

Ids(c) == {p.id : p \in store[c].points}

\* the summary table before it is printed
NoSummary == [c \in {"raw_documents", "secure_documents"} |-> "none"]

----------------------------------------------------------------------------
(* Numbers. A correlation coefficient is kept exactly: r is the number     *)
(* with sign sgn and r^2 = num / den (in lowest terms); nan is numpy's NaN.*)

RECURSIVE Gcd(_, _)
Gcd(a, b) == IF b = 0 THEN a ELSE Gcd(b, a % b)

NaN == [tag |-> "nan", sgn |-> 0, num |-> 0, den |-> 1]
NotComputed == [tag |-> "none", sgn |-> 0, num |-> 0, den |-> 1]
Coefficient(sgn, num, den) ==
  LET g == Gcd(num, den) IN
    [tag |-> "num", sgn |-> sgn, num |-> num \div g, den |-> den \div g]
\* the literal 0
Zero == [tag |-> "num", sgn |-> 0, num |-> 0, den |-> 1]
IsNaN(r) == r.tag = "nan"

\* np.mean(values): its value is determined by the values averaged
Mean(values) ==
  IF values = <<>> THEN [tag |-> "nan", of |-> <<>>]
  ELSE [tag |-> "mean", of |-> values]
\* a literal standing where a mean would be
Literal(r) == [tag |-> "literal", of |-> <<r>>]
NoMean == [tag |-> "none", of |-> <<>>]

RECURSIVE SumSeq(_)
SumSeq(s) == IF s = <<>> THEN 0 ELSE Head(s) + SumSeq(Tail(s))

ToSet(s) == {s[j] : j \in 1..Len(s)}

\* mutant: the slice stops one entry early
Slice_short(s, k) == SubSeq(s, 1, IF k - 1 < Len(s) THEN k - 1 ELSE Len(s))

\* s[:k]
Slice(s, k) == SubSeq(s, 1, IF k < Len(s) THEN k ELSE Len(s))

\* the elements of a set of integers, in a sequence
RECURSIVE SetToSeq(_)
SetToSeq(S) ==
  IF S = {} THEN <<>>
  ELSE LET m == CHOOSE x \in S : \A y \in S : x <= y
       IN <<m>> \o SetToSeq(S \ {m})

----------------------------------------------------------------------------
(* Initial state: nothing has run; the oracle holds no configuration and   *)
(* the store holds no collection.                                          *)

InitSys ==
  /\ runs = 0
  /\ script = "none"
  /\ pc = "idle"
  /\ i = 0
  /\ oracle = [configured |-> FALSE, key |-> 0]
  /\ store = [c \in Collections |-> [exists |-> FALSE, points |-> {}]]
  /\ doc_id = NoId
  /\ embedding = NoVec
  /\ encrypted = NoVec
  /\ cfgCalls = 0
  /\ encCalls = 0
  /\ qEmbeds = 0
  /\ searches = {}
  /\ ignored = {}
  /\ extracted = {} /\ todo = {} /\ verdicts = {} /\ errors = {}
  /\ summary = NoSummary

InitEvalIdle ==
  /\ epc = "idle"
  /\ q = 0
  /\ nq = 0
  /\ raw_ids = <<>> /\ raw_scores = <<>> /\ enc_ids = <<>> /\ enc_scores = <<>>
  /\ overlap = 0 /\ enc_ranks = <<>> /\ rank_x = <<>>
  /\ rank_corr = NotComputed /\ score_corr = NotComputed
  /\ raw_matched = <<>> /\ enc_matched = <<>>
  /\ all_overlaps = <<>> /\ all_rank_correlations = <<>>
  /\ all_score_correlations = <<>>
  /\ avg_overlap = NoMean /\ avg_rank_corr = NoMean /\ avg_score_corr = NoMean

InitTextIdle ==
  /\ original = <<>> /\ recovered = <<>>
  /\ cpc = "idle"
  /\ match = "none" /\ common = {} /\ status = "none"

Init == InitSys /\ InitEvalIdle /\ InitTextIdle

----------------------------------------------------------------------------
(* The client functions. Each issues one or two HTTP requests through      *)
(* urllib.request.urlopen, which raises on a transport error and on a      *)
(* non-success status; `ok` is whether the request got through.            *)

\* configure_vault(): POST config/rotate installs a fresh key
configure_vault(next) ==
  /\ cfgCalls' = cfgCalls + 1
  /\ \E ok \in BOOLEAN :
       IF ok
       THEN /\ oracle' = [configured |-> TRUE, key |-> oracle.key + 1]
            /\ pc' = next
       ELSE /\ oracle' = oracle
            /\ pc' = "crashed"

\* the store after DELETE /collections/{name}; a failure is swallowed by
\* the bare `except: pass`
AfterDelete(name, delOk) ==
  IF delOk THEN [store EXCEPT ![name] = [exists |-> FALSE, points |-> {}]]
  ELSE store

\* create_collection(name): DELETE (errors ignored), then PUT, which the
\* store rejects when the collection still exists. delOk: the DELETE was
\* served, so the collection is gone whether or not it existed. A DELETE
\* that was not served raises, and the exception is swallowed.
create_collection(name, next) ==
  \E delOk \in BOOLEAN, putOk \in BOOLEAN :
    LET s1 == AfterDelete(name, delOk) IN
      /\ ignored' = IF delOk THEN ignored
                    ELSE ignored \cup {[request |-> "DELETE", coll |-> name]}
      /\ IF putOk /\ ~s1[name].exists
         THEN /\ store' = [s1 EXCEPT ![name] = [exists |-> TRUE, points |-> {}]]
              /\ pc' = next
         ELSE /\ store' = s1
              /\ pc' = "crashed"

\* encrypt_vector(vector): POST encrypt/vector, returns ['data']['ciphertext'];
\* the oracle answers only once it holds a configuration
encrypt_vector(vector, next) ==
  /\ encCalls' = encCalls + 1
  /\ \E ok \in BOOLEAN :
       IF ok /\ oracle.configured
       THEN /\ encrypted' = Ciphertext(vector, oracle.key)
            /\ pc' = next
       ELSE /\ encrypted' = encrypted
            /\ pc' = "crashed"

\* store_point / store_in_qdrant: PUT points?wait=true upserts one record
Upsert(points, point_id, vector, payload) ==
  {p \in points : p.id # point_id}
     \cup {[id |-> point_id, vector |-> vector, payload |-> payload]}

store_point(collection, point_id, vector, payload, next) ==
  /\ ignored' = ignored
  /\ \E ok \in BOOLEAN :
       IF ok /\ store[collection].exists
       THEN /\ store' = [store EXCEPT ![collection].points =
                            Upsert(@, point_id, vector, payload)]
            /\ pc' = next
       ELSE /\ store' = store
            /\ pc' = "crashed"

\* search / search_qdrant: POST points/search with the given vector
search(collection, vector, next) ==
  \E ok \in BOOLEAN :
    LET served == ok /\ store[collection].exists IN
      /\ searches' = searches \cup {[coll |-> collection, vector |-> vector,
                                     embeds |-> qEmbeds, served |-> served]}
      /\ pc' = IF served THEN next ELSE "crashed"

----------------------------------------------------------------------------
(* A session starts when the previous one has ended.                       *)

Ended == pc \in {"idle", "done", "crashed"}

FirstStep(s) ==
  CASE s = "ingest_demo" -> "configure"
    [] s = "ingest_gtr"  -> "configure"
    [] s = "prove"       -> "configure"
    [] s = "search_gtr"  -> "args"
    [] s = "vec2text"    -> "configure"
    [] s = "attack"      -> "get_raw"

Start ==
  /\ Ended
  /\ runs < MaxRuns
  /\ \E s \in Scripts :
       /\ script' = s
       /\ pc' = FirstStep(s)
  /\ runs' = runs + 1
  /\ i' = 1
  /\ doc_id' = NoId /\ embedding' = NoVec /\ encrypted' = NoVec
  /\ cfgCalls' = 0 /\ encCalls' = 0 /\ qEmbeds' = 0 /\ searches' = {}
  /\ ignored' = {}
  /\ extracted' = {} /\ todo' = {} /\ verdicts' = {} /\ errors' = {}
  /\ summary' = NoSummary
  /\ UNCHANGED <<oracle, store, pureVars>>

At(s, l) == script = s /\ pc = l


\* the variables each client function leaves alone
cfgFrame == <<runs, script, i, store, doc_id, embedding, encrypted, encCalls,
              qEmbeds, searches, ignored, attackVars, pureVars>>
storeFrame == <<runs, script, oracle, doc_id, embedding, encrypted, cfgCalls,
                encCalls, qEmbeds, searches, attackVars, pureVars>>
encFrame == <<runs, script, i, oracle, store, doc_id, embedding, cfgCalls,
              qEmbeds, searches, ignored, attackVars, pureVars>>
localFrame == <<runs, script, i, oracle, store, cfgCalls, encCalls, searches,
                ignored, attackVars, pureVars>>

\* for ... in DOCUMENTS / QUERIES / TEXTS: the next iteration, or the code
\* after the loop
LoopNext(n, body, after) == IF i < n THEN body ELSE after
LoopIndex(n) == i' = IF pc' = "crashed" THEN i ELSE IF i < n THEN i + 1 ELSE 1

----------------------------------------------------------------------------
(* ingest-demo-data.py main()                                              *)

IngestDemo_configure ==
  /\ At("ingest_demo", "configure")
  /\ configure_vault("create_raw")
  /\ UNCHANGED cfgFrame

IngestDemo_create_raw ==
  /\ At("ingest_demo", "create_raw")
  /\ create_collection("raw_documents", "create_secure")
  /\ UNCHANGED <<i, storeFrame>>

IngestDemo_create_secure ==
  /\ At("ingest_demo", "create_secure")
  /\ create_collection("secure_documents", "embed")
  /\ UNCHANGED <<i, storeFrame>>

\* for doc in DOCUMENTS: embedding = gtr.encode(doc['text'])
IngestDemo_embed ==
  /\ At("ingest_demo", "embed")
  /\ doc_id' = Uuid4(runs, i)
  /\ embedding' = Encode(Text("demo", i))
  /\ encrypted' = NoVec
  /\ pc' = "store_raw"
  /\ UNCHANGED <<qEmbeds, localFrame>>

IngestDemo_store_raw ==
  /\ At("ingest_demo", "store_raw")
  /\ store_point("raw_documents", doc_id, embedding,
                 TextPayload(embedding.text), "encrypt")
  /\ UNCHANGED <<i, storeFrame>>

IngestDemo_encrypt ==
  /\ At("ingest_demo", "encrypt")
  /\ encrypt_vector(embedding, "store_enc")
  /\ UNCHANGED encFrame

\* mutant: the encrypted record is stored under an id of its own
IngestDemo_store_enc_own_id ==
  /\ At("ingest_demo", "store_enc")
  /\ store_point("secure_documents", Uuid4(runs, i + NumDocs), encrypted,
                 TextPayload(embedding.text), LoopNext(NumDocs, "embed", "done"))
  /\ LoopIndex(NumDocs)
  /\ UNCHANGED storeFrame

IngestDemo_store_enc ==
  /\ At("ingest_demo", "store_enc")
  /\ store_point("secure_documents", doc_id, encrypted,
                 TextPayload(embedding.text), LoopNext(NumDocs, "embed", "done"))
  /\ LoopIndex(NumDocs)
  /\ UNCHANGED storeFrame

----------------------------------------------------------------------------
(* ingest-gtr.py main()                                                    *)

IngestGtr_configure ==
  /\ At("ingest_gtr", "configure")
  /\ configure_vault("create")
  /\ UNCHANGED cfgFrame

IngestGtr_create ==
  /\ At("ingest_gtr", "create")
  /\ create_collection("secure_documents", "embed")
  /\ UNCHANGED <<i, storeFrame>>

\* embedding = model.encode(f"{doc['title']}\n\n{doc['content']}")
IngestGtr_embed ==
  /\ At("ingest_gtr", "embed")
  /\ doc_id' = GtrId(i)
  /\ embedding' = Encode(Text("gtr", i))
  /\ encrypted' = NoVec
  /\ pc' = "encrypt"
  /\ UNCHANGED <<qEmbeds, localFrame>>

IngestGtr_encrypt ==
  /\ At("ingest_gtr", "encrypt")
  /\ encrypt_vector(embedding, "store")
  /\ UNCHANGED encFrame

\* mutant: the embedding is stored instead of its ciphertext
IngestGtr_store_plain ==
  /\ At("ingest_gtr", "store")
  /\ store_point("secure_documents", doc_id, embedding,
                 GtrPayload(embedding.text), LoopNext(NumDocs, "embed", "count"))
  /\ LoopIndex(NumDocs)
  /\ UNCHANGED storeFrame

IngestGtr_store ==
  /\ At("ingest_gtr", "store")
  /\ store_point("secure_documents", doc_id, encrypted,
                 GtrPayload(embedding.text), LoopNext(NumDocs, "embed", "count"))
  /\ LoopIndex(NumDocs)
  /\ UNCHANGED storeFrame

\* GET points/count, printed
IngestGtr_count ==
  /\ At("ingest_gtr", "count")
  /\ \E ok \in BOOLEAN :
       pc' = IF ok /\ store["secure_documents"].exists THEN "done" ELSE "crashed"
  /\ UNCHANGED <<i, store, ignored, storeFrame>>

----------------------------------------------------------------------------
(* prove-search-works.py main(): setup, indexing, and the requests of the  *)
(* query loop. What the loop computes from the two result lists is the     *)
(* subject of SpecEval and SpecBatch below.                                *)

\* mutant: the session relies on the configuration an earlier one left
Prove_configure_skipped ==
  /\ At("prove", "configure")
  /\ pc' = "create_raw"
  /\ UNCHANGED <<oracle, cfgCalls, cfgFrame>>

Prove_configure ==
  /\ At("prove", "configure")
  /\ configure_vault("create_raw")
  /\ UNCHANGED cfgFrame

Prove_create_raw ==
  /\ At("prove", "create_raw")
  /\ create_collection("proof_raw", "create_enc")
  /\ UNCHANGED <<i, storeFrame>>

Prove_create_enc ==
  /\ At("prove", "create_enc")
  /\ create_collection("proof_encrypted", "embed")
  /\ UNCHANGED <<i, storeFrame>>

\* doc_id = str(uuid.uuid4()); embedding = model.encode(doc)
Prove_embed ==
  /\ At("prove", "embed")
  /\ doc_id' = Uuid4(runs, i)
  /\ embedding' = Encode(Text("proof", i))
  /\ encrypted' = NoVec
  /\ pc' = "store_raw"
  /\ UNCHANGED <<qEmbeds, localFrame>>

Prove_store_raw ==
  /\ At("prove", "store_raw")
  /\ store_point("proof_raw", doc_id, embedding,
                 TextPayload(embedding.text), "encrypt")
  /\ UNCHANGED <<i, storeFrame>>

Prove_encrypt ==
  /\ At("prove", "encrypt")
  /\ encrypt_vector(embedding, "store_enc")
  /\ UNCHANGED encFrame

Prove_store_enc ==
  /\ At("prove", "store_enc")
  /\ store_point("proof_encrypted", doc_id, encrypted,
                 TextPayload(embedding.text), LoopNext(NumDocs, "embed", "q_embed"))
  /\ LoopIndex(NumDocs)
  /\ UNCHANGED storeFrame

\* for query in QUERIES: query_emb = model.encode(query)
Prove_q_embed ==
  /\ At("prove", "q_embed")
  /\ embedding' = Encode(Text("query", i))
  /\ encrypted' = NoVec
  /\ qEmbeds' = qEmbeds + 1
  /\ pc' = "q_search_raw"
  /\ UNCHANGED <<doc_id, localFrame>>

\* raw_results = search('proof_raw', query_emb)
Prove_q_search_raw ==
  /\ At("prove", "q_search_raw")
  /\ search("proof_raw", embedding, "q_encrypt")
  /\ UNCHANGED <<runs, script, i, oracle, store, doc_id, embedding, encrypted,
                 cfgCalls, encCalls, qEmbeds, ignored, attackVars, pureVars>>

\* encrypted_query = encrypt_vector(query_emb)
Prove_q_encrypt ==
  /\ At("prove", "q_encrypt")
  /\ encrypt_vector(embedding, "q_search_enc")
  /\ UNCHANGED encFrame

\* mutant: the encrypted collection is searched with the plain query vector
Prove_q_search_enc_plain ==
  /\ At("prove", "q_search_enc")
  /\ search("proof_encrypted", embedding, LoopNext(NumQueries, "q_embed", "done"))
  /\ LoopIndex(NumQueries)
  /\ qEmbeds' = IF pc' = "q_embed" THEN 0 ELSE qEmbeds
  /\ UNCHANGED <<runs, script, oracle, store, doc_id, embedding, encrypted,
                 cfgCalls, encCalls, ignored, attackVars, pureVars>>

\* enc_results = search('proof_encrypted', encrypted_query); then the
\* metrics of this query, and the next query
Prove_q_search_enc ==
  /\ At("prove", "q_search_enc")
  /\ search("proof_encrypted", encrypted, LoopNext(NumQueries, "q_embed", "done"))
  /\ LoopIndex(NumQueries)
  /\ qEmbeds' = IF pc' = "q_embed" THEN 0 ELSE qEmbeds
  /\ UNCHANGED <<runs, script, oracle, store, doc_id, embedding, encrypted,
                 cfgCalls, encCalls, ignored, attackVars, pureVars>>

----------------------------------------------------------------------------
(* search-gtr.py main(): no configuration call                             *)

\* if len(sys.argv) < 2: print usage; return
SearchGtr_args ==
  /\ At("search_gtr", "args")
  /\ \E hasQuery \in BOOLEAN : pc' = IF hasQuery THEN "q_embed" ELSE "done"
  /\ UNCHANGED <<runs, script, i, oracle, store, doc_id, embedding, encrypted,
                 cfgCalls, encCalls, qEmbeds, searches, ignored, attackVars, pureVars>>

\* query_embedding = model.encode(query)
SearchGtr_q_embed ==
  /\ At("search_gtr", "q_embed")
  /\ embedding' = Encode(Text("argv", 1))
  /\ encrypted' = NoVec
  /\ qEmbeds' = qEmbeds + 1
  /\ pc' = "q_encrypt"
  /\ UNCHANGED <<doc_id, localFrame>>

SearchGtr_q_encrypt ==
  /\ At("search_gtr", "q_encrypt")
  /\ encrypt_vector(embedding, "q_search")
  /\ UNCHANGED encFrame

\* results = search_qdrant(encrypted_query)
SearchGtr_q_search ==
  /\ At("search_gtr", "q_search")
  /\ search("secure_documents", encrypted, "done")
  /\ UNCHANGED <<runs, script, i, oracle, store, doc_id, embedding, encrypted,
                 cfgCalls, encCalls, qEmbeds, ignored, attackVars, pureVars>>

----------------------------------------------------------------------------
(* demo-real-vec2text.py main(): the oracle calls and the two inversions   *)

\* lines 67-72: POST config/rotate
Vec2Text_configure ==
  /\ At("vec2text", "configure")
  /\ configure_vault("invert_raw")
  /\ UNCHANGED cfgFrame

\* vec2text.invert_strings(strings=[text], ...): may raise
Vec2Text_invert_raw ==
  /\ At("vec2text", "invert_raw")
  /\ \E ok \in BOOLEAN : pc' = IF ok THEN "embed" ELSE "crashed"
  /\ UNCHANGED <<runs, script, i, oracle, store, doc_id, embedding, encrypted,
                 cfgCalls, encCalls, qEmbeds, searches, ignored, attackVars, pureVars>>

\* raw_emb = gtr.encode(text)
Vec2Text_embed ==
  /\ At("vec2text", "embed")
  /\ embedding' = Encode(Text("vec2text", i))
  /\ encrypted' = NoVec
  /\ pc' = "encrypt"
  /\ UNCHANGED <<doc_id, qEmbeds, localFrame>>

\* enc_emb = encrypt_vector(raw_emb)
Vec2Text_encrypt ==
  /\ At("vec2text", "encrypt")
  /\ encrypt_vector(embedding, "invert_enc")
  /\ UNCHANGED encFrame

\* vec2text.invert_embeddings(embeddings=enc_tensor, ...): may raise
Vec2Text_invert_enc ==
  /\ At("vec2text", "invert_enc")
  /\ \E ok \in BOOLEAN :
       pc' = IF ok THEN LoopNext(NumDocs, "invert_raw", "done") ELSE "crashed"
  /\ LoopIndex(NumDocs)
  /\ UNCHANGED <<runs, script, oracle, store, doc_id, embedding, encrypted,
                 cfgCalls, encCalls, qEmbeds, searches, ignored, attackVars, pureVars>>

----------------------------------------------------------------------------
(* attack-stored-vectors.py: get_all_points and main()                     *)

\* {'limit': 100, ...}
scroll_limit == 100

\* the order of point ids in which the store pages through a collection
Before(a, b) == a.run < b.run \/ (a.run = b.run /\ a.n < b.n)

\* ['result']['points'] of one scroll request: the first scroll_limit points
Page(points) ==
  {p \in points : Cardinality({r \in points : Before(r.id, p.id)}) < scroll_limit}

\* the point a for-loop over the remaining points visits next
First(points) == CHOOSE p \in points : \A r \in points \ {p} : Before(p.id, r.id)

attackFrame == <<runs, script, i, oracle, store, doc_id, embedding, encrypted,
                 cfgCalls, encCalls, qEmbeds, searches, ignored, pureVars>>

\* try: points = get_all_points(collection) ... except Exception: print Error
get_all_points(collection, body, after) ==
  \E ok \in BOOLEAN :
    IF ok /\ store[collection].exists
    THEN /\ extracted' = Page(store[collection].points)
         /\ todo' = extracted'
         /\ errors' = errors
         /\ pc' = IF extracted' = {} THEN after ELSE body
    ELSE /\ extracted' = {}
         /\ todo' = {}
         /\ errors' = errors \cup {[coll |-> collection, cause |-> "scroll"]}
         /\ pc' = after

\* one pass of `for point in points`: point['payload']['text'], the
\* inversion, the check and the Status line; an exception (KeyError, or one
\* raised by the inversion) leaves the loop for the except clause
attack_point(collection, after) ==
  LET point == First(todo) IN
    \E invOk \in BOOLEAN :
      IF point.payload.has_text /\ invOk
      THEN /\ verdicts' = verdicts \cup {[coll |-> collection, id |-> point.id]}
           /\ todo' = todo \ {point}
           /\ errors' = errors
           /\ pc' = IF todo' = {} THEN after ELSE pc
      ELSE /\ verdicts' = verdicts
           /\ todo' = todo
           /\ errors' = errors \cup {[coll |-> collection, cause |-> "record"]}
           /\ pc' = after

\* line 57
Attack_get_raw ==
  /\ At("attack", "get_raw")
  /\ get_all_points("raw_documents", "invert_raw", "get_secure")
  /\ UNCHANGED <<verdicts, summary, attackFrame>>

\* lines 60-82
Attack_invert_raw ==
  /\ At("attack", "invert_raw")
  /\ attack_point("raw_documents", "get_secure")
  /\ UNCHANGED <<extracted, summary, attackFrame>>

\* line 90
Attack_get_secure ==
  /\ At("attack", "get_secure")
  /\ get_all_points("secure_documents", "invert_secure", "summary")
  /\ UNCHANGED <<verdicts, summary, attackFrame>>

\* lines 93-119
Attack_invert_secure ==
  /\ At("attack", "invert_secure")
  /\ attack_point("secure_documents", "summary")
  /\ UNCHANGED <<extracted, summary, attackFrame>>

\* lines 121-137: the table is printed as it stands in the source
Attack_summary ==
  /\ At("attack", "summary")
  /\ summary' = [NoSummary EXCEPT !["raw_documents"] = "BREACHED",
                                  !["secure_documents"] = "PROTECTED"]
  /\ pc' = "done"
  /\ UNCHANGED <<extracted, todo, verdicts, errors, attackFrame>>

NextAttack ==
  \/ Attack_get_raw \/ Attack_invert_raw
  \/ Attack_get_secure \/ Attack_invert_secure
  \/ Attack_summary

----------------------------------------------------------------------------

Next ==
  \/ Start
  \/ IngestDemo_configure \/ IngestDemo_create_raw \/ IngestDemo_create_secure
  \/ IngestDemo_embed \/ IngestDemo_store_raw \/ IngestDemo_encrypt
  \/ IngestDemo_store_enc
  \/ IngestGtr_configure \/ IngestGtr_create \/ IngestGtr_embed
  \/ IngestGtr_encrypt \/ IngestGtr_store \/ IngestGtr_count
  \/ Prove_configure \/ Prove_create_raw \/ Prove_create_enc \/ Prove_embed
  \/ Prove_store_raw \/ Prove_encrypt \/ Prove_store_enc
  \/ Prove_q_embed \/ Prove_q_search_raw \/ Prove_q_encrypt \/ Prove_q_search_enc
  \/ SearchGtr_args \/ SearchGtr_q_embed \/ SearchGtr_q_encrypt
  \/ SearchGtr_q_search
  \/ Vec2Text_configure \/ Vec2Text_invert_raw \/ Vec2Text_embed
  \/ Vec2Text_encrypt \/ Vec2Text_invert_enc
  \/ NextAttack

Spec == Init /\ [][Next]_vars

----------------------------------------------------------------------------
(* prove-search-works.py, the body of the query loop (lines 155-189) and   *)
(* the summary (lines 207-209), on the two result lists of a query.        *)
(* raw_ids / raw_scores and enc_ids / enc_scores are the ids and scores of *)
(* raw_results and enc_results, in result order.                           *)

\* top_k = 5
top_k == 5

\* mutant: the lists are compared whole, not their first top_k entries
TopKOverlap_unsliced(rawIds, encIds) ==
  (Cardinality(ToSet(rawIds) \cap ToSet(encIds)) * 100) \div top_k

\* overlap = len(set(raw_ids[:top_k]) & set(enc_ids[:top_k])) / top_k * 100
TopKOverlap(rawIds, encIds) ==
  (Cardinality(ToSet(Slice(rawIds, top_k)) \cap ToSet(Slice(encIds, top_k))) * 100)
     \div top_k

\* raw_ranks = {id: rank for rank, id in enumerate(raw_ids)}: the 0-based
\* position of the last occurrence of each id
RawRanks(rawIds) ==
  [id \in ToSet(rawIds) |->
     (CHOOSE j \in 1..Len(rawIds) :
        /\ rawIds[j] = id
        /\ \A k \in 1..Len(rawIds) : rawIds[k] = id => k <= j) - 1]

\* mutant: an absent id gets the number of encrypted results as its rank
EncRanks_default_enc_len(rawIds, encIds) ==
  LET raw_ranks == RawRanks(rawIds) IN
    [j \in 1..Len(encIds) |->
       IF encIds[j] \in DOMAIN raw_ranks THEN raw_ranks[encIds[j]]
       ELSE Len(encIds)]

\* enc_ranks = [raw_ranks.get(id, len(raw_ids)) for id in enc_ids]
EncRanks(rawIds, encIds) ==
  LET raw_ranks == RawRanks(rawIds) IN
    [j \in 1..Len(encIds) |->
       IF encIds[j] \in DOMAIN raw_ranks THEN raw_ranks[encIds[j]]
       ELSE Len(rawIds)]

\* list(range(n))
Range(n) == [j \in 1..n |-> j - 1]

IsConstant(s) == \A j \in 1..Len(s) : s[j] = s[1]

\* twice scipy's rankdata(s): average ranks, ties share their mean rank
Rankdata2(s) ==
  [j \in 1..Len(s) |->
     2 * Cardinality({k \in 1..Len(s) : s[k] < s[j]})
       + Cardinality({k \in 1..Len(s) : s[k] = s[j]}) + 1]

\* the product-moment correlation of two series that both vary
Pearson(x, y) ==
  LET n == Len(x)
      sx == SumSeq(x)
      sy == SumSeq(y)
      sxy == n * SumSeq([j \in 1..n |-> x[j] * y[j]]) - sx * sy
      sxx == n * SumSeq([j \in 1..n |-> x[j] * x[j]]) - sx * sx
      syy == n * SumSeq([j \in 1..n |-> y[j] * y[j]]) - sy * sy
  IN Coefficient(IF sxy > 0 THEN 1 ELSE IF sxy < 0 THEN -1 ELSE 0,
                 sxy * sxy, sxx * syy)

\* stats.spearmanr(x, y)[0]: nan for fewer than two observations and for a
\* constant input, else the correlation of the ranks
spearmanr(x, y) ==
  IF Len(x) <= 1 THEN NaN
  ELSE IF IsConstant(x) \/ IsConstant(y) THEN NaN
  ELSE Pearson(Rankdata2(x), Rankdata2(y))

\* stats.pearsonr(x, y)[0]: nan for a constant input
pearsonr(x, y) ==
  IF IsConstant(x) \/ IsConstant(y) THEN NaN ELSE Pearson(x, y)

\* ids.index(id), as a 1-based position
Index(ids, id) == CHOOSE j \in 1..Len(ids) :
                    ids[j] = id /\ \A k \in 1..(j - 1) : ids[k] # id

\* mutant: the scores are taken by position in the result list
Matched_by_position(scores, ids, common_ids) ==
  LET order == SetToSeq(common_ids) IN
    [j \in 1..Len(order) |-> scores[j]]

\* [scores[ids.index(id)] for id in common_ids]; both comprehensions walk
\* the same set object, so they visit the ids in the same order
Matched(scores, ids, common_ids) ==
  LET order == SetToSeq(common_ids) IN
    [j \in 1..Len(order) |-> scores[Index(ids, order[j])]]

\* lines 166-189: the metrics of one query
CompareQuery ==
  /\ epc = "query"
  /\ overlap' = TopKOverlap(raw_ids, enc_ids)
  /\ all_overlaps' = Append(all_overlaps, overlap')
  /\ enc_ranks' = EncRanks(raw_ids, enc_ids)
  /\ rank_x' = Range(Len(enc_ids))
  /\ rank_corr' = spearmanr(rank_x', enc_ranks')
  /\ all_rank_correlations' =
       IF ~IsNaN(rank_corr') THEN Append(all_rank_correlations, rank_corr')
       ELSE all_rank_correlations
  /\ LET common_ids == ToSet(raw_ids) \cap ToSet(enc_ids) IN
       IF Cardinality(common_ids) >= 3
       THEN /\ raw_matched' = Matched(raw_scores, raw_ids, common_ids)
            /\ enc_matched' = Matched(enc_scores, enc_ids, common_ids)
            /\ score_corr' = pearsonr(raw_matched', enc_matched')
            /\ all_score_correlations' =
                 IF ~IsNaN(score_corr')
                 THEN Append(all_score_correlations, score_corr')
                 ELSE all_score_correlations
       ELSE UNCHANGED <<raw_matched, enc_matched, score_corr,
                        all_score_correlations>>
  /\ epc' = "compared"
  /\ UNCHANGED <<q, nq, raw_ids, raw_scores, enc_ids, enc_scores,
                 avg_overlap, avg_rank_corr, avg_score_corr, sysVars, textVars>>

\* lines 207-209: the averages over the batch
Summarize ==
  /\ epc = "compared"
  /\ q = nq
  /\ avg_overlap' = Mean(all_overlaps)
  /\ avg_rank_corr' = IF all_rank_correlations # <<>>
                      THEN Mean(all_rank_correlations) ELSE Literal(Zero)
  /\ avg_score_corr' = IF all_score_correlations # <<>>
                       THEN Mean(all_score_correlations) ELSE Literal(Zero)
  /\ epc' = "done"
  /\ UNCHANGED <<q, nq, raw_ids, raw_scores, enc_ids, enc_scores, overlap,
                 enc_ranks, rank_x, rank_corr, score_corr, raw_matched,
                 enc_matched, all_overlaps, all_rank_correlations,
                 all_score_correlations, sysVars, textVars>>

(* The result lists of a search: records with distinct ids, ranked by      *)
(* descending score, at most `limit` of them. Ids are opaque, so the       *)
(* documents of the plain result are numbered in its order.                *)

RECURSIVE DistinctSeqs(_, _)
DistinctSeqs(S, n) ==
  IF n = 0 THEN {<<>>}
  ELSE LET shorter == DistinctSeqs(S, n - 1) IN
         shorter \cup
           UNION {{Append(t, x) : x \in S \ ToSet(t)} :
                    t \in {u \in shorter : Len(u) = n - 1}}

\* the plain result list of n documents
PlainOrder(n) == [j \in 1..n |-> j]

\* scores of n results, ranked descending
NonIncreasing(n, levels) ==
  {f \in [1..n -> levels] : \A j \in 1..(n - 1) : f[j] >= f[j + 1]}

\* n results with pairwise different scores
Descending(n) == [j \in 1..n |-> n - j + 1]

\* SpecEval: one query; result lists of up to EvalIds documents
EvalResults ==
  /\ \E n \in 0..EvalIds :
       /\ raw_ids = PlainOrder(n)
       /\ raw_scores = Descending(n)
  /\ enc_ids \in DistinctSeqs(1..EvalIds, EvalIds)
  /\ enc_scores = Descending(Len(enc_ids))

\* SpecBatch: result lists of up to BatchIds documents, scores of MaxScore levels
BatchResults(rawIds, rawScores, encIds, encScores) ==
  /\ \E n \in 0..BatchIds :
       /\ rawIds = PlainOrder(n)
       /\ rawScores \in NonIncreasing(n, 1..MaxScore)
  /\ encIds \in DistinctSeqs(1..BatchIds, BatchIds)
  /\ encScores \in NonIncreasing(Len(encIds), 1..MaxScore)

InitMetrics ==
  /\ epc = "query"
  /\ q = 1
  /\ overlap = 0 /\ enc_ranks = <<>> /\ rank_x = <<>>
  /\ rank_corr = NotComputed /\ score_corr = NotComputed
  /\ raw_matched = <<>> /\ enc_matched = <<>>
  /\ all_overlaps = <<>> /\ all_rank_correlations = <<>>
  /\ all_score_correlations = <<>>
  /\ avg_overlap = NoMean /\ avg_rank_corr = NoMean /\ avg_score_corr = NoMean

InitEval ==
  /\ InitSys
  /\ InitTextIdle
  /\ InitMetrics
  /\ nq = 1
  /\ EvalResults

InitBatch ==
  /\ InitSys
  /\ InitTextIdle
  /\ InitMetrics
  /\ nq = BatchQueries
  /\ BatchResults(raw_ids, raw_scores, enc_ids, enc_scores)

\* for query in QUERIES: the searches of the next query have returned
NextQuery ==
  /\ epc = "compared"
  /\ q < nq
  /\ q' = q + 1
  /\ BatchResults(raw_ids', raw_scores', enc_ids', enc_scores')
  /\ epc' = "query"
  /\ UNCHANGED <<nq, overlap, enc_ranks, rank_x, rank_corr, score_corr,
                 raw_matched, enc_matched, all_overlaps, all_rank_correlations, all_score_correlations,
                 avg_overlap, avg_rank_corr, avg_score_corr, sysVars, textVars>>

NextEval == CompareQuery \/ Summarize
SpecEval == InitEval /\ [][NextEval]_vars

NextBatch == CompareQuery \/ NextQuery \/ Summarize
SpecBatch == InitBatch /\ [][NextBatch]_vars

----------------------------------------------------------------------------
(* Claims about the sessions (checked under Spec)                          *)

IngestLoopLabels == {"embed", "store_raw", "encrypt", "store_enc"}
QueryLoopLabels == {"q_embed", "q_search_raw", "q_encrypt", "q_search_enc"}

\* the ids a complete ingestion run of this session has written
RunIds == {Uuid4(runs, n) : n \in 1..NumDocs}

\* C1: paired identifiers. After a complete ingestion run of
\* ingest-demo-data (raw_documents / secure_documents) or of
\* prove-search-works (proof_raw / proof_encrypted) the two collections hold
\* the same ids, namely one per ingested document; and while the loop runs
\* every id of the encrypted collection is an id of the plain one.
PairedIds ==
  /\ At("ingest_demo", "done") =>
       /\ Ids("raw_documents") = Ids("secure_documents")
       /\ Ids("raw_documents") = RunIds
  /\ (script = "prove" /\ pc \in QueryLoopLabels \cup {"done"}) =>
       /\ Ids("proof_raw") = Ids("proof_encrypted")
       /\ Ids("proof_raw") = RunIds
  /\ (script = "ingest_demo" /\ pc \in IngestLoopLabels) =>
       Ids("secure_documents") \subseteq Ids("raw_documents")
  /\ (script = "prove" /\ pc \in IngestLoopLabels) =>
       Ids("proof_encrypted") \subseteq Ids("proof_raw")

\* a complete run of ingest-demo-data has written every document twice
PairedIdsWitness ==
  /\ At("ingest_demo", "done")
  /\ Cardinality(Ids("secure_documents")) = NumDocs
  /\ Cardinality(Ids("raw_documents")) = NumDocs

\* C2: no plaintext embedding is stored in an encrypted collection. Every
\* record of secure_documents / proof_encrypted holds a ciphertext that the
\* oracle produced from the embedding of that record's own document, and
\* every record of raw_documents / proof_raw holds the embedding itself;
\* what the ingestion loops are about to upsert into an encrypted collection
\* is the value the encrypt call returned for the current embedding.
NoPlaintextInEncrypted ==
  /\ \A c \in EncryptedCollections : \A p \in store[c].points :
       /\ p.vector.kind = "ct"
       /\ p.vector.text = p.payload.text
       /\ p.vector.key \in 1..oracle.key
  /\ \A c \in PlainCollections : \A p \in store[c].points :
       p.vector = Encode(p.payload.text)
  /\ (script \in {"ingest_demo", "prove"} /\ pc = "store_enc") =>
       encrypted = Ciphertext(embedding, oracle.key)
  /\ At("ingest_gtr", "store") => encrypted = Ciphertext(embedding, oracle.key)

\* all three ingestion scripts have written: secure_documents holds
\* ingest-gtr's records, raw_documents and proof_encrypted are filled
NoPlaintextWitness ==
  /\ \E p \in store["secure_documents"].points : ~p.payload.has_text
  /\ store["raw_documents"].points # {}
  /\ store["proof_encrypted"].points # {}

\* C3: a query is embedded once; the plain collection is searched with that
\* embedding and the encrypted collection with the oracle's ciphertext of
\* the same embedding, never the other way round.
QueryTexts == {Text("query", n) : n \in 1..NumQueries} \cup {Text("argv", 1)}

SearchVectorsMatchCollection ==
  \A s \in searches :
    /\ s.embeds = 1
    /\ s.vector.text \in QueryTexts
    /\ s.coll \in PlainCollections => s.vector = Encode(s.vector.text)
    /\ s.coll \in EncryptedCollections =>
         /\ s.vector.kind = "ct"
         /\ s.vector.key = oracle.key
    /\ s.coll = "proof_encrypted" =>
         [coll |-> "proof_raw", vector |-> Encode(s.vector.text), embeds |-> 1,
          served |-> TRUE] \in searches

\* prove-search-works has searched both collections for every query
SearchVectorsWitness ==
  /\ At("prove", "done")
  /\ Cardinality(searches) = 2 * NumQueries

\* C4 as stated: whenever a session has issued an encrypt call it has
\* issued exactly one configuration call before.
ConfigBeforeEncryptEverySession ==
  encCalls > 0 => cfgCalls = 1

\* C4 as amended: in the sessions of ingest-demo-data, ingest-gtr,
\* prove-search-works and demo-real-vec2text the configuration call is
\* issued once and has completed before the first encrypt call and before
\* any search; a session of search-gtr issues no configuration call at all.
ConfigBeforeEncrypt ==
  /\ cfgCalls <= 1
  /\ (script # "search_gtr" /\ (encCalls > 0 \/ searches # {})) =>
       (cfgCalls = 1 /\ oracle.configured)
  /\ script = "search_gtr" => cfgCalls = 0

\* a session that configured once and then encrypted every document and query
ConfigBeforeEncryptWitness ==
  /\ At("prove", "done")
  /\ cfgCalls = 1
  /\ encCalls = NumDocs + NumQueries

\* C5: whenever an encrypted collection has been searched, the key
\* (configuration) under which the query was encrypted is the key under
\* which every record the collection holds was encrypted.
QueryKeyMatchesStoredKeys ==
  \A s \in searches :
    (s.coll \in EncryptedCollections /\ s.served) =>
      \A p \in store[s.coll].points : p.vector.key = s.vector.key

----------------------------------------------------------------------------
(* Claims about the comparison of one query (checked under SpecEval)       *)

Compared == epc \in {"compared", "done"}

\* the ids among the first k entries of both result lists
CommonTop(k) ==
  {id \in ToSet(raw_ids) :
     /\ \E j \in 1..Len(raw_ids) : j <= k /\ raw_ids[j] = id
     /\ \E j \in 1..Len(enc_ids) : j <= k /\ enc_ids[j] = id}

Min(a, b) == IF a < b THEN a ELSE b

\* C6 as stated: the overlap of a query is the fraction
\* |set(ids_plain[:k]) & set(ids_encrypted[:k])| / k, lies in [0,1], and
\* is the same with the two lists swapped.
OverlapIsFraction ==
  Compared =>
    /\ overlap * top_k = Cardinality(CommonTop(top_k))
    /\ 0 <= overlap /\ overlap <= 1
    /\ TopKOverlap(enc_ids, raw_ids) = overlap

\* C6 as amended: the overlap of a query is the percentage
\* |set(ids_plain[:k]) & set(ids_encrypted[:k])| / k * 100 with k = 5, lies
\* in [0,100], is the same with the two lists swapped, and is what the
\* query adds to all_overlaps.
OverlapIsPercentage ==
  Compared =>
    /\ overlap * top_k = 100 * Cardinality(CommonTop(top_k))
    /\ 0 <= overlap /\ overlap <= 100
    /\ TopKOverlap(enc_ids, raw_ids) = overlap
    /\ all_overlaps = <<overlap>>

\* two lists of at least k results that share some but not all of their
\* first k ids
OverlapWitness ==
  /\ Compared
  /\ Len(raw_ids) >= top_k /\ Len(enc_ids) >= top_k
  /\ overlap = 80

TooFewResultsRejected ==
  (Compared /\ (top_k > Len(raw_ids) \/ top_k > Len(enc_ids))) =>
    Len(all_overlaps) < q

\* C9: the series handed to spearmanr are x[i] = i and y[i] = the index of
\* enc_ids[i] in raw_ids, or len(raw_ids) when raw_ids does not hold it
\* (indices from 0).
RankSeriesConstruction ==
  Compared =>
    /\ Len(rank_x) = Len(enc_ids)
    /\ Len(enc_ranks) = Len(enc_ids)
    /\ \A j \in 1..Len(enc_ids) :
         /\ rank_x[j] = j - 1
         /\ \/ /\ enc_ids[j] \notin ToSet(raw_ids)
               /\ enc_ranks[j] = Len(raw_ids)
            \/ \E k \in 1..Len(raw_ids) :
                 raw_ids[k] = enc_ids[j] /\ enc_ranks[j] = k - 1
    /\ rank_corr = spearmanr(rank_x, enc_ranks)

\* an encrypted result with an id the plain result lacks and an id the
\* plain result holds at another position, the lists of different lengths
RankSeriesWitness ==
  /\ Compared
  /\ Len(enc_ids) >= 3
  /\ Len(raw_ids) # Len(enc_ids)
  /\ \E j \in 1..Len(enc_ids) : enc_ids[j] \notin ToSet(raw_ids)
  /\ \E j \in 1..Len(enc_ids) :
       enc_ids[j] \in ToSet(raw_ids) /\ enc_ranks[j] # j - 1

----------------------------------------------------------------------------
(* Claims about a batch of queries (checked under SpecBatch)               *)

\* C10: an undefined correlation is never reported as a number. A query
\* whose rank series has fewer than two points or no variance yields nan and
\* adds nothing to all_rank_correlations; a query with fewer than 3 common
\* ids or constant scores adds nothing to all_score_correlations; and when
\* no query of the batch has a defined value, the reported average is
\* undefined too, not a number.
UndefinedNeverNumeric ==
  /\ (epc = "compared" /\ (Len(enc_ids) <= 1 \/ IsConstant(enc_ranks))) =>
       /\ IsNaN(rank_corr)
       /\ (q = 1 => all_rank_correlations = <<>>)
  /\ (epc = "compared" /\ q = 1
        /\ Cardinality(ToSet(raw_ids) \cap ToSet(enc_ids)) < 3) =>
       all_score_correlations = <<>>
  /\ (epc = "done" /\ all_rank_correlations = <<>>) =>
       avg_rank_corr.tag = "nan"
  /\ (epc = "done" /\ all_score_correlations = <<>>) =>
       avg_score_corr.tag = "nan"

----------------------------------------------------------------------------
(* Score correlation of one query (checked under SpecEval)                 *)

CommonIds == ToSet(raw_ids) \cap ToSet(enc_ids)

\* the score a result list gives to an id it holds
ScoreOf(ids, scores, id) == scores[CHOOSE j \in 1..Len(ids) : ids[j] = id]

\* C11: the score correlation is computed only when at least 3 ids occur in
\* both result lists; the two sequences handed to pearsonr are aligned by
\* id: their j-th entries are the plain score and the encrypted score of the
\* same common id, whatever its positions in the two lists, and every
\* common id is represented; with fewer than 3 common ids nothing is
\* computed and nothing is recorded for the query.
ScoreCorrelationAlignedById ==
  Compared =>
    /\ Cardinality(CommonIds) < 3 =>
         /\ score_corr = NotComputed
         /\ raw_matched = <<>> /\ enc_matched = <<>>
         /\ all_score_correlations = <<>>
    /\ Cardinality(CommonIds) >= 3 =>
         /\ Len(raw_matched) = Cardinality(CommonIds)
         /\ Len(enc_matched) = Cardinality(CommonIds)
         /\ \A j \in 1..Len(raw_matched) : \E id \in CommonIds :
              /\ raw_matched[j] = ScoreOf(raw_ids, raw_scores, id)
              /\ enc_matched[j] = ScoreOf(enc_ids, enc_scores, id)
         /\ \A id \in CommonIds : \E j \in 1..Len(raw_matched) :
              /\ raw_matched[j] = ScoreOf(raw_ids, raw_scores, id)
              /\ enc_matched[j] = ScoreOf(enc_ids, enc_scores, id)
         /\ score_corr = pearsonr(raw_matched, enc_matched)
         /\ all_score_correlations =
              IF IsNaN(score_corr) THEN <<>> ELSE <<score_corr>>

\* at least 3 common ids, one of them at different positions in the two
\* lists, an id of each list missing from the other, and a correlation
\* that is recorded
ScoreCorrelationWitness ==
  /\ Compared
  /\ Cardinality(CommonIds) >= 3
  /\ \E a \in 1..Len(raw_ids), b \in 1..Len(enc_ids) :
       raw_ids[a] = enc_ids[b] /\ a # b
  /\ ToSet(enc_ids) \ ToSet(raw_ids) # {}
  /\ ToSet(raw_ids) \ ToSet(enc_ids) # {}
  /\ all_score_correlations = <<score_corr>>

----------------------------------------------------------------------------
(* Aggregation over a batch of queries (checked under SpecBatch)           *)

\* what the comparison of one query adds to the three lists
AggregationStep ==
  (epc = "query" /\ epc' = "compared") =>
    /\ all_overlaps' = Append(all_overlaps, overlap')
    /\ all_rank_correlations' =
         IF IsNaN(spearmanr(rank_x', enc_ranks')) THEN all_rank_correlations
         ELSE Append(all_rank_correlations, rank_corr')
    /\ all_score_correlations' =
         IF Cardinality(CommonIds) < 3 THEN all_score_correlations
         ELSE IF IsNaN(pearsonr(raw_matched', enc_matched'))
              THEN all_score_correlations
              ELSE Append(all_score_correlations, score_corr')

\* the averages reported for the batch
AveragesOfBatch ==
  epc = "done" =>
    /\ Len(all_overlaps) = nq
    /\ avg_overlap = Mean(all_overlaps)
    /\ avg_rank_corr = Mean(all_rank_correlations)
    /\ avg_score_corr = Mean(all_score_correlations)

\* C12: each aggregate is the arithmetic mean over exactly the queries for
\* which the metric is defined. A query adds its overlap to all_overlaps
\* always, its rank correlation and its score correlation only when they
\* are defined, and nothing (no zero) otherwise; the reported averages are
\* the means of these three lists, the overlap's over all queries.
MeansOverDefinedQueries ==
  []AveragesOfBatch /\ [][AggregationStep]_vars

----------------------------------------------------------------------------
(* The checks that classify an inversion: attack-stored-vectors.py lines   *)
(* 71-74 and 104-111, demo-real-vec2text.py lines 103-111 and 137-148.     *)
(* A text is a sequence of characters.                                     *)

\* str.lower() of one character
LowerChar(c) ==
  CASE c = "A" -> "a"
    [] c = "B" -> "b"
    [] OTHER -> c

\* s.lower()
Lower(s) == [j \in 1..Len(s) |-> LowerChar(s[j])]

\* the characters str.strip() and str.split() treat as whitespace
Whitespace == {" "}

\* s.lstrip(chars), s.rstrip(chars), s.strip(chars)
RECURSIVE LStrip(_, _)
LStrip(s, chars) ==
  IF s # <<>> /\ Head(s) \in chars THEN LStrip(Tail(s), chars) ELSE s

RECURSIVE RStrip(_, _)
RStrip(s, chars) ==
  IF s # <<>> /\ s[Len(s)] \in chars
  THEN RStrip(SubSeq(s, 1, Len(s) - 1), chars) ELSE s

Strip(s, chars) == RStrip(LStrip(s, chars), chars)

\* a in b, for strings
IsSubstring(a, b) ==
  \E k \in 0..(Len(b) - Len(a)) : SubSeq(b, k + 1, k + Len(a)) = a

\* s.replace(c, '')
RECURSIVE Remove(_, _)
Remove(s, c) ==
  IF s = <<>> THEN <<>>
  ELSE IF Head(s) = c THEN Remove(Tail(s), c)
       ELSE <<Head(s)>> \o Remove(Tail(s), c)

\* the length of the first word of a string that starts with one
RECURSIVE WordLen(_)
WordLen(s) ==
  IF s = <<>> \/ Head(s) \in Whitespace THEN 0 ELSE 1 + WordLen(Tail(s))

\* s.split(): the maximal runs of characters that are not whitespace
RECURSIVE Split(_)
Split(s) ==
  LET t == LStrip(s, Whitespace) IN
    IF t = <<>> THEN <<>>
    ELSE <<SubSeq(t, 1, WordLen(t))>>
           \o Split(SubSeq(t, WordLen(t) + 1, Len(t)))

\* {'the', 'a', 'is', 'of', 'in', 'on', 'at'}
StopWords ==
  {<<"t", "h", "e">>, <<"a">>, <<"i", "s">>, <<"o", "f">>, <<"i", "n">>,
   <<"o", "n">>, <<"a", "t">>}

\* attack-stored-vectors.py line 74
AttackRawMatch(orig, recovered_text) ==
  IF IsSubstring(Strip(Lower(orig), {"."}), Lower(recovered_text))
  THEN "RECOVERED" ELSE "PARTIAL"

\* attack-stored-vectors.py lines 107-109
AttackCommon(orig, recovered_text) ==
  LET original_words == ToSet(Split(Remove(Lower(orig), ".")))
      recovered_words == ToSet(Split(Remove(Lower(recovered_text), ".")))
  IN original_words \cap (recovered_words \ StopWords)

\* attack-stored-vectors.py line 111
AttackStatus(leaked) == IF Cardinality(leaked) = 0 THEN "PROTECTED" ELSE "LEAKED"

\* demo-real-vec2text.py lines 106-111
Vec2TextRawMatch(text, raw_text) ==
  IF Lower(raw_text) = Lower(text) \/ IsSubstring(Lower(text), Lower(raw_text))
  THEN "EXACT MATCH"
  ELSE IF \E word \in ToSet(Slice(Split(Lower(text)), 3)) :
            IsSubstring(word, Lower(raw_text))
       THEN "PARTIAL MATCH"
       ELSE "NO MATCH"

\* demo-real-vec2text.py lines 140-142
Vec2TextCommon(text, enc_text) ==
  LET original_words == ToSet(Split(Remove(Remove(Lower(text), "."), ",")))
      recovered_words == ToSet(Split(Remove(Remove(Lower(enc_text), "."), ",")))
  IN original_words \cap recovered_words

\* demo-real-vec2text.py lines 145-148
Vec2TextStatus(found) == IF Cardinality(found) <= 2 THEN "GARBAGE" ELSE "SOME WORDS"

(* The texts the checks are run on: up to MaxWords words of a small        *)
(* vocabulary separated by single spaces, with or without a capital first  *)
(* letter and a closing mark, and the empty text; an inversion's output    *)
(* may carry trailing whitespace.                                          *)

MaxWords == 3

Vocabulary == {<<"a">>, <<"b">>, <<"a", "b">>}

RECURSIVE WordLists(_)
WordLists(n) ==
  IF n = 0 THEN {<<>>}
  ELSE LET shorter == WordLists(n - 1) IN
         shorter \cup {Append(ws, w) : ws \in {u \in shorter : Len(u) = n - 1},
                                       w \in Vocabulary}

\* ' '.join(ws)
RECURSIVE Join(_)
Join(ws) ==
  IF ws = <<>> THEN <<>>
  ELSE IF Len(ws) = 1 THEN Head(ws)
       ELSE Head(ws) \o <<" ">> \o Join(Tail(ws))

UpperChar(c) ==
  CASE c = "a" -> "A"
    [] c = "b" -> "B"
    [] OTHER -> c

Capitalize(s) == IF s = <<>> THEN s ELSE <<UpperChar(Head(s))>> \o Tail(s)

ClosingMarks == {<<>>, <<".">>, <<",">>}

Texts ==
  {<<>>} \cup
  {(IF cap THEN Capitalize(Join(ws)) ELSE Join(ws)) \o mark :
     ws \in WordLists(MaxWords) \ {<<>>}, cap \in BOOLEAN,
     mark \in ClosingMarks}

Outputs == Texts \cup {t \o <<" ">> : t \in Texts}

InitClassify ==
  /\ InitSys
  /\ InitEvalIdle
  /\ original \in Texts
  /\ recovered \in Outputs
  /\ cpc = "input"
  /\ match = "none" /\ common = {} /\ status = "none"

\* attack-stored-vectors.py lines 71-74: recovered_text, match
Attack_check_raw ==
  /\ cpc = "input"
  /\ match' = AttackRawMatch(original, Strip(recovered, Whitespace))
  /\ cpc' = "attack_raw"
  /\ UNCHANGED <<original, recovered, common, status, sysVars, evalVars>>

\* attack-stored-vectors.py lines 104-111: recovered_text, common, status
Attack_check_secure ==
  /\ cpc = "input"
  /\ common' = AttackCommon(original, Strip(recovered, Whitespace))
  /\ status' = AttackStatus(common')
  /\ cpc' = "attack_secure"
  /\ UNCHANGED <<original, recovered, match, sysVars, evalVars>>

\* demo-real-vec2text.py lines 103-111: raw_text, match
Vec2Text_check_raw ==
  /\ cpc = "input"
  /\ match' = Vec2TextRawMatch(original, Strip(recovered, Whitespace))
  /\ cpc' = "vec2text_raw"
  /\ UNCHANGED <<original, recovered, common, status, sysVars, evalVars>>

\* demo-real-vec2text.py lines 137-148: enc_text, common, the result printed
Vec2Text_check_enc ==
  /\ cpc = "input"
  /\ common' = Vec2TextCommon(original, Strip(recovered, Whitespace))
  /\ status' = Vec2TextStatus(common')
  /\ cpc' = "vec2text_enc"
  /\ UNCHANGED <<original, recovered, match, sysVars, evalVars>>

NextClassify ==
  \/ Attack_check_raw \/ Attack_check_secure
  \/ Vec2Text_check_raw \/ Vec2Text_check_enc

SpecClassify == InitClassify /\ [][NextClassify]_vars

----------------------------------------------------------------------------
(* Claims about the classification of an inversion (checked under          *)
(* SpecClassify)                                                           *)

\* the recovered text the checks work on and print
RecoveredText == Strip(recovered, Whitespace)

TerminalPunctuation == {"."}

\* normalized for whole-string comparison: lowercased, terminal punctuation
\* stripped
Normalize(s) == RStrip(Lower(s), TerminalPunctuation)

RawChecked == cpc \in {"attack_raw", "vec2text_raw"}
SecureChecked == cpc \in {"attack_secure", "vec2text_enc"}

\* C13: classification is monotonic with normalization. Whenever the
\* normalized original equals the normalized recovered text, the check of a
\* plain vector's inversion says recovered (RECOVERED in
\* attack-stored-vectors, EXACT MATCH in demo-real-vec2text), never partial
\* and never no match.
NormalizedEqualIsRecovered ==
  (RawChecked /\ Normalize(original) = Normalize(RecoveredText)) =>
    match \in {"RECOVERED", "EXACT MATCH"}

\* the normalized original is, or is part of, the normalized recovered text
WholeMatch ==
  \/ Normalize(original) = Normalize(RecoveredText)
  \/ IsSubstring(Normalize(original), Normalize(RecoveredText))

\* one of the first three words of the original appears in the recovered text
WordMatch ==
  \E word \in ToSet(Slice(Split(original), 3)) :
    IsSubstring(Lower(word), Lower(RecoveredText))

\* C14: the check of a plain vector's inversion has three outcomes and
\* never fabricates a match: recovered only if the normalized original is
\* equal to or a substring of the normalized recovered text; otherwise
\* partial only if one of the first three whitespace-split words of the
\* original appears in the recovered text; otherwise no match. A recovered
\* text that shares nothing with the original is neither recovered nor
\* partial.
RawVerdictThreeWay ==
  RawChecked =>
    /\ match \in {"RECOVERED", "EXACT MATCH"} => WholeMatch
    /\ match \in {"PARTIAL", "PARTIAL MATCH"} => (~WholeMatch /\ WordMatch)
    /\ (~WholeMatch /\ ~WordMatch) => match = "NO MATCH"

Punctuation == {".", ","}

RECURSIVE RemoveAll(_, _)
RemoveAll(s, chars) ==
  IF s = <<>> THEN <<>>
  ELSE IF Head(s) \in chars THEN RemoveAll(Tail(s), chars)
       ELSE <<Head(s)>> \o RemoveAll(Tail(s), chars)

\* the token set of a text: lowercased, punctuation removed, split on
\* whitespace
TokenSet(s) == ToSet(Split(RemoveAll(Lower(s), Punctuation)))

\* the tokens of the original that the recovered text leaks
Leaked == (TokenSet(original) \cap TokenSet(RecoveredText)) \ StopWords

\* C15: leak detection on an encrypted vector's inversion. With L the
\* tokens common to original and recovered text minus the stop words, the
\* verdict is protected / garbage if and only if L is empty, and when L is
\* not empty the verdict lists exactly the tokens of L; in
\* attack-stored-vectors and in demo-real-vec2text.
LeakDetection ==
  SecureChecked =>
    /\ status \in {"PROTECTED", "GARBAGE"} <=> Leaked = {}
    /\ Leaked # {} => common = Leaked

----------------------------------------------------------------------------
(* Claims about failures (checked under Spec)                              *)

InversionLabels == {"invert_raw", "invert_enc", "invert_secure"}

VerdictsOf(c) == {v \in verdicts : v.coll = c}
RecordErrorsOf(c) == {e \in errors : e.coll = c /\ e.cause = "record"}
ScrollFailed(c) == [coll |-> c, cause |-> "scroll"] \in errors

\* when the attack has ended, every record of a collection that was
\* extracted has a verdict, except the records whose own attack failed
EveryRecordHasItsVerdict ==
  At("attack", "done") =>
    \A c \in {"raw_documents", "secure_documents"} :
      ~ScrollFailed(c) =>
        Cardinality(VerdictsOf(c)) >=
          Cardinality(Page(store[c].points)) - Cardinality(RecordErrorsOf(c))

\* a failure while one record (one text) is attacked does not end the loop
FailedRecordIsSkipped ==
  /\ (script = "attack" /\ pc \in InversionLabels /\ errors' # errors) =>
       (todo' # {} => pc' = pc)
  /\ (script = "vec2text" /\ pc \in InversionLabels) => pc' # "crashed"

\* C16: an inversion error, or a record that lacks an expected field, is
\* caught and reported for that record only; every later record of the same
\* collection's batch is still attacked and gets its own verdict.
RecordErrorsDoNotAbortBatch ==
  []EveryRecordHasItsVerdict /\ [][FailedRecordIsSkipped]_vars

\* the records other than the current document's stay as they are
EarlierRecordsUnchanged ==
  \A c \in Collections : \A p \in store[c].points :
    p.id # doc_id => p \in store'[c].points

\* C17: batch-partial failure. When the oracle or store call fails for one
\* document during ingestion, or for one query during comparison, the
\* remaining documents and queries of the batch are still processed, and
\* the records written for earlier documents are left unchanged.
BatchSurvivesItemFailure ==
  [][(script \in {"ingest_demo", "prove"}
        /\ pc \in IngestLoopLabels \cup QueryLoopLabels) =>
       (pc' # "crashed" /\ EarlierRecordsUnchanged)]_vars

\* C18: a transport or configuration error is never turned into a success
\* outcome. After a failed scroll or a failed inversion of secure_documents
\* the summary does not report it as protected; and a store request that
\* failed inside create_collection is surfaced to the caller, so a session
\* that swallowed one does not carry on.
ErrorsNeverBecomeSuccess ==
  /\ (script = "attack" /\ \E e \in errors : e.coll = "secure_documents") =>
       summary["secure_documents"] # "PROTECTED"
  /\ ignored # {} => pc = "crashed"

----------------------------------------------------------------------------
(* The attack on collections that hold about as many records as one        *)
(* scroll request returns: scroll_limit, and up to Margin fewer or more    *)
(* (SpecScroll). Smaller collections are attacked in Spec.                 *)

Margin == 2

\* the store after ingest-demo-data.py has ingested n documents
Ingested(n) ==
  [c \in Collections |->
     IF c = "raw_documents"
     THEN [exists |-> TRUE,
           points |-> {[id |-> Uuid4(1, k), vector |-> Encode(Text("demo", k)),
                        payload |-> TextPayload(Text("demo", k))] : k \in 1..n}]
     ELSE IF c = "secure_documents"
     THEN [exists |-> TRUE,
           points |-> {[id |-> Uuid4(1, k),
                        vector |-> Ciphertext(Encode(Text("demo", k)), 1),
                        payload |-> TextPayload(Text("demo", k))] : k \in 1..n}]
     ELSE [exists |-> FALSE, points |-> {}]]

InitScroll ==
  /\ runs = 2
  /\ script = "attack"
  /\ pc = "get_raw"
  /\ i = 1
  /\ oracle = [configured |-> TRUE, key |-> 1]
  /\ \E n \in (scroll_limit - Margin)..(scroll_limit + Margin) :
       store = Ingested(n)
  /\ doc_id = NoId /\ embedding = NoVec /\ encrypted = NoVec
  /\ cfgCalls = 0 /\ encCalls = 0 /\ qEmbeds = 0 /\ searches = {}
  /\ ignored = {}
  /\ extracted = {} /\ todo = {} /\ verdicts = {} /\ errors = {}
  /\ summary = NoSummary
  /\ InitEvalIdle
  /\ InitTextIdle

SpecScroll == InitScroll /\ [][NextAttack]_vars

\* C19: get_all_points(collection) returns every record stored in the
\* collection, whatever its size, so that an attack without errors issues
\* one verdict per stored record.
AllPointsExtracted ==
  /\ At("attack", "invert_raw") => extracted = store["raw_documents"].points
  /\ At("attack", "invert_secure") => extracted = store["secure_documents"].points
  /\ (At("attack", "done") /\ errors = {}) =>
       \A c \in {"raw_documents", "secure_documents"} :
         \A p \in store[c].points : [coll |-> c, id |-> p.id] \in verdicts

============================================================================
